---------------------------- MODULE Spec2Model ----------------------------
(***************************************************************************)
(* State-machine model of the sales ETL pipeline:                          *)
(*   src/src/lambda/TransformCSV.py  (transform run)                       *)
(*   src/src/lambda/LoadCSV.py       (load run, truncate + batched insert) *)
(*   src/src/lambda/QueryDB.py       (query request, SQL construction)     *)
(*                                                                         *)
(* A CSV record is a sequence of string fields.  The model keeps the       *)
(* columns the handlers branch on and drops the pass-through text columns. *)
(* Strings are converted by table over the finite set of field values the  *)
(* inputs are drawn from (Strip, IsInt, IntOf, ...).                       *)
(*                                                                         *)
(* The relational store is modelled by its committed rows (table) and the  *)
(* rows inserted by the open transaction of the run's connection (txn).    *)
(* A multi-row INSERT is one statement: a duplicate primary key raises and *)
(* the statement inserts nothing.  TRUNCATE commits implicitly.  A commit  *)
(* that raises commits nothing and leaves the transaction open.            *)
(*                                                                         *)
(* The environment injects at most MaxFaults external faults (a failed     *)
(* connect, TRUNCATE, get_object, INSERT, commit or put_object).           *)
(* s3file and input hold the data rows of an object that has a header.     *)
(*                                                                         *)
(* A text the query handler takes apart or puts together (an aggregation   *)
(* expression, the query) is the sequence of its pieces.  Two load         *)
(* invocations against one table are modelled by Switch, which sets the    *)
(* running invocation's locals aside and takes up the other's; waits for   *)
(* locks of the store are not modelled.                                    *)
(***************************************************************************)
EXTENDS Integers, Sequences, FiniteSets, TLC

VARIABLES
    \* ---- LoadCSV.py ----
    s3file,         \* content of the transformed object at (bucket, key)
    table,          \* committed rows of SALES.sales
    txn,            \* rows inserted by the open transaction, not committed
    connection,     \* TRUE when the pymysql connection is open
    pc,             \* position of the load handler
    csv,            \* rows of csv_reader (set by the S3 read)
    idx,            \* index of the next row csv_reader yields
    batch,          \* the in-memory batch
    rows_read,
    rows_inserted,
    response,       \* the handler's response
    run,            \* number of the current load invocation (history)
    commitLog,      \* sizes of the batches committed by this run (history)
    firstResult,    \* table and response at the end of the first run (history)
    \* ---- TransformCSV.py ----
    t_pc,           \* position of the transform handler
    t_run,          \* number of the current transform invocation (history)
    input,          \* records of the raw input object (header excluded)
    t_idx,          \* index of the next record the reader yields
    seen_order_ids,
    output,         \* data rows written to the output builder
    row_count,
    total_revenue_sum,
    total_profit_sum,
    uploaded,       \* data rows of the object put to storage, or NotUploaded
    result,         \* the handler's return value, or the raised exception
    \* ---- QueryDB.py ----
    q_pc,           \* position of the query handler
    event,          \* the request: filters, groupBy, aggregations
    q_connection,   \* TRUE when the query handler's connection is open
    sql,            \* the query text, as the sequence of its pieces
    where_values,   \* the bound parameters
    executed,       \* TRUE once cursor.execute was called (history)
    q_response,     \* the query handler's response
    \* ---- a second load invocation ----
    other,          \* locals of the load invocation that is not running now
    overlapped,     \* TRUE once two load invocations ran interleaved (history)
    \* ---- environment ----
    faults          \* external faults (storage, store) injected so far

loadVars == <<s3file, table, txn, connection, pc, csv, idx, batch, rows_read,
              rows_inserted, response, run, commitLog, firstResult>>
transformVars == <<t_pc, t_run, input, t_idx, seen_order_ids, output, row_count,
                   total_revenue_sum, total_profit_sum, uploaded, result>>
queryVars == <<q_pc, event, q_connection, sql, where_values, executed, q_response>>
peerVars == <<other, overlapped>>
vars == <<loadVars, transformVars, queryVars, peerVars, faults>>

---------------------------------------------------------------------------
(* Bounds of the model *)
MaxRows == 4        \* rows in a transformed file
MaxRuns == 2        \* invocations of a handler in a behaviour
MaxFaults == 1      \* external faults (storage, store) in a behaviour
MaxRecords == 3     \* records in a raw input

\* LoadCSV.py:136 sets BATCH_SIZE = 1000; the model scales it down, every
\* formula below is stated in terms of BATCH_SIZE.
BATCH_SIZE == 2

---------------------------------------------------------------------------
(* Strings of the CSV fields *)

NoneVal == "<None>"     \* DictReader's restval for a field missing in a short row

IdStr == <<"1", "2", "3", "4", "5", "6", "7", "8">>

\* distinct order ids in a transformed file
MaxId == MaxRows

\* str.strip()
Strip(s) ==
    CASE s = " "  -> ""
      [] s = " 1" -> "1"
      [] s = " Region " -> "Region"
      [] OTHER    -> s

\* whether int(s) succeeds: int() accepts surrounding whitespace
IsInt(s) == s \in {IdStr[i] : i \in 1..Len(IdStr)} \cup {" 1", "10"}

\* int(s), for the strings with IsInt(s)
IntOf(s) ==
    CASE s = " 1" -> 1
      [] s = "10" -> 10
      [] OTHER    -> CHOOSE i \in 1..Len(IdStr) : IdStr[i] = s


---------------------------------------------------------------------------
(* LoadCSV.py: rows of the transformed file *)

\* A row of the transformed file, as csv.DictReader yields it: the fields of
\* the columns <<Region, Order ID, Units Sold>>; a short line has fewer.
OkRow(i) == <<"EU", IdStr[i], "7">>
BlankRow == <<"", " ", "">>             \* every field blank
ShortBlankRow == <<" ">>                \* a whitespace-only line
NoKeyRow == <<"EU", " ", "7">>          \* Order ID empty after strip
BadNumRow == <<"EU", " 1", "abc">>      \* Units Sold does not coerce

NumCols == Len(OkRow(1))

\* the rows that are not loadable
BadRowValues == {BlankRow, ShortBlankRow, NoKeyRow, BadNumRow}

\* the order ids OkRow rows of q use
UsedIds(q) == {i \in 1..MaxId : \E k \in 1..Len(q) : q[k] = OkRow(i)}

\* The transformed files of at most n rows.  The handler compares order ids
\* for equality only, so files are taken up to renaming of the ids: a file
\* uses the ids 1, 2, ... in the order of their first occurrence.
RECURSIVE FilesUpTo(_)
FilesUpTo(n) ==
    IF n = 0 THEN {<<>>}
    ELSE LET shorter == FilesUpTo(n - 1)
             longest == {q \in shorter : Len(q) = n - 1}
         IN  shorter
             \cup {Append(q, x) : q \in longest, x \in BadRowValues}
             \cup UNION {{Append(q, OkRow(i)) :
                            i \in {j \in 1..MaxId : j <= Cardinality(UsedIds(q)) + 1}} :
                         q \in longest}

Files == FilesUpTo(MaxRows)

RECURSIVE SeqsUpTo(_, _)
SeqsUpTo(S, n) ==
    IF n = 0 THEN {<<>>}
    ELSE LET shorter == SeqsUpTo(S, n - 1)
         IN  shorter \cup {Append(q, x) : q \in {r \in shorter : Len(r) = n - 1}, x \in S}

\* row.get(column): the field, or None when the line is too short
Field(row, i) == IF i <= Len(row) THEN row[i] ELSE NoneVal

\* AllBlank with the blank-row test left out
AllBlankNever(row) == "false"

\* all(v.strip() == '' for v in row.values()): "true", "false", or
\* "error" when the scan reaches a None value (None has no strip)
AllBlank(row) ==
    LET stop == {i \in 1..NumCols :
                    Field(row, i) = NoneVal \/ Strip(Field(row, i)) # ""}
    IN  IF stop = {} THEN "true"
        ELSE LET k == CHOOSE i \in stop : \A j \in stop : i <= j
             IN  IF Field(row, k) = NoneVal THEN "error" ELSE "false"

\* The body of the row try block up to batch.append: "skip" (empty Order
\* ID, continue), "error" (an exception the row handler catches) or "ok".
ParseRow(row) ==
    LET oid == Field(row, 2)
        units == Field(row, 3)
    IN  IF oid = NoneVal THEN "error"
        ELSE IF Strip(oid) = "" THEN "skip"
        ELSE IF ~IsInt(Strip(oid)) THEN "error"
        ELSE IF units = NoneVal \/ ~IsInt(units) THEN "error"
        ELSE "ok"

\* the tuple appended to the batch
RowTuple(row) ==
    [order_id |-> IntOf(Strip(Field(row, 2))), units_sold |-> IntOf(Field(row, 3))]

---------------------------------------------------------------------------
(* The relational store *)

\* a stored row: the inserted tuple, tagged with the run that inserted it
Stored(t, r) == [order_id |-> t.order_id, units_sold |-> t.units_sold, run |-> r]

Keys(rows) == {x.order_id : x \in rows}

\* INSERT of the batch violates the primary key: a key repeated in the
\* batch, or present among the rows the connection sees
DuplicateKey(b, visible) ==
    \/ \E i, j \in 1..Len(b) : i # j /\ b[i].order_id = b[j].order_id
    \/ \E i \in 1..Len(b) : b[i].order_id \in Keys(visible)

\* rows a table may hold before the first run of a behaviour
OldRows == {[order_id |-> 2, units_sold |-> 9, run |-> 0],
            [order_id |-> 8, units_sold |-> 9, run |-> 0]}

\* the stored rows without the run tag
Untag(rows) == {[order_id |-> x.order_id, units_sold |-> x.units_sold] : x \in rows}

---------------------------------------------------------------------------
(* LoadCSV.py: lambda_handler *)

NoResponse == [statusCode |-> 0, body |-> [message |-> "none"]]

\* Failed with the counters left in the body of the failure response
FailedReportsCounts(msg) ==
    /\ txn' = {}
    /\ connection' = FALSE
    /\ response' = [statusCode |-> 500,
                    body |-> [message |-> msg, rows_read |-> rows_read,
                              rows_inserted |-> rows_inserted]]
    /\ pc' = "returned"

\* except Exception (rollback when connected, statusCode 500) and finally
\* (close): the connection's open transaction is discarded
Failed(msg) ==
    /\ txn' = {}
    /\ connection' = FALSE
    /\ response' = [statusCode |-> 500, body |-> [message |-> msg]]
    /\ pc' = "returned"

\* the environment may inject one more external fault
CanFault == faults < MaxFaults

\* Invocation up to CREATE TABLE IF NOT EXISTS; a missing environment
\* variable or a failed connect raises with connection still None.
LoadInvoke ==
    /\ pc \in {"idle", "returned"}
    /\ run < MaxRuns
    /\ run' = run + 1
    /\ firstResult' = IF run = 1
                      THEN [table |-> Untag(table), response |-> response]
                      ELSE firstResult
    /\ rows_read' = 0
    /\ rows_inserted' = 0
    /\ commitLog' = <<>>
    /\ csv' = <<>>
    /\ idx' = 1
    /\ batch' = <<>>
    /\ \/ /\ connection' = TRUE
          /\ response' = [statusCode |-> 200, body |-> [message |-> "none"]]
          /\ pc' = "connected"
          /\ UNCHANGED <<txn, faults>>
       \/ /\ CanFault
          /\ faults' = faults + 1
          /\ Failed("Load failed: connect")
    /\ UNCHANGED <<s3file, table, transformVars, queryVars, peerVars>>

\* Truncate with the TRUNCATE statement left out
TruncateSkipped ==
    /\ pc = "connected"
    /\ pc' = "truncated"
    /\ UNCHANGED <<table, txn, connection, response, faults>>
    /\ UNCHANGED <<s3file, csv, idx, batch, rows_read, rows_inserted, run,
                   commitLog, firstResult, transformVars,
                   queryVars, peerVars>>

\* TRUNCATE TABLE sales, committed
Truncate ==
    /\ pc = "connected"
    /\ \/ /\ table' = {}
          /\ pc' = "truncated"
          /\ UNCHANGED <<txn, connection, response, faults>>
       \/ /\ CanFault
          /\ faults' = faults + 1
          /\ Failed("Load failed: truncate")
          /\ UNCHANGED table
    /\ UNCHANGED <<s3file, csv, idx, batch, rows_read, rows_inserted, run,
                   commitLog, firstResult, transformVars,
                   queryVars, peerVars>>

\* get_object, DictReader, BATCH_SIZE, batch = []
ReadS3 ==
    /\ pc = "truncated"
    /\ \/ /\ csv' = s3file
          /\ idx' = 1
          /\ batch' = <<>>
          /\ pc' = "rows"
          /\ UNCHANGED <<txn, connection, response, faults>>
       \/ /\ CanFault
          /\ faults' = faults + 1
          /\ Failed("Load failed: get_object")
          /\ UNCHANGED <<csv, idx, batch>>
    /\ UNCHANGED <<s3file, table, rows_read, rows_inserted, run, commitLog,
                   firstResult, transformVars,
                   queryVars, peerVars>>

\* rows the INSERT of batch b adds to the open transaction
Inserted(b) == {Stored(b[i], run) : i \in 1..Len(b)}

\* cursor.executemany raises on b: a duplicate key
InsertRaises(b) == DuplicateKey(b, table \cup txn)

\* executemany(b); commit(); rows_inserted += len(b) all succeed
FlushCommitted(b) ==
    /\ ~InsertRaises(b)
    /\ table' = table \cup txn \cup Inserted(b)
    /\ txn' = {}
    /\ rows_inserted' = rows_inserted + Len(b)
    /\ commitLog' = Append(commitLog, Len(b))
    /\ UNCHANGED faults

\* FlushInsertRaised with the rows of the failed batch counted
FlushInsertRaisedCounted(b) ==
    /\ \/ InsertRaises(b) /\ UNCHANGED faults
       \/ ~InsertRaises(b) /\ CanFault /\ faults' = faults + 1
    /\ rows_inserted' = rows_inserted + Len(b)
    /\ UNCHANGED <<table, commitLog>>

\* executemany(b) raises: the key conflict, or an external fault
FlushInsertRaised(b) ==
    /\ \/ InsertRaises(b) /\ UNCHANGED faults
       \/ ~InsertRaises(b) /\ CanFault /\ faults' = faults + 1
    /\ UNCHANGED <<table, rows_inserted, commitLog>>

\* executemany(b) succeeds and commit() raises: nothing is committed
FlushCommitRaised(b) ==
    /\ ~InsertRaises(b)
    /\ CanFault
    /\ faults' = faults + 1
    /\ UNCHANGED <<table, rows_inserted, commitLog>>

\* BatchFull with > for >=
BatchFullOffByOne(b) == Len(b) > BATCH_SIZE

\* if len(batch) >= BATCH_SIZE
BatchFull(b) == Len(b) >= BATCH_SIZE

\* One iteration of "for row in csv_reader"
ProcessRow ==
    /\ pc = "rows"
    /\ idx <= Len(csv)
    /\ LET row == csv[idx]
           blank == AllBlank(row)
           parsed == ParseRow(row)
           grown == Append(batch, RowTuple(row))
       IN  \/ /\ blank = "error"
              /\ Failed("Load failed: 'NoneType' object has no attribute 'strip'")
              /\ UNCHANGED <<table, idx, batch, rows_read, rows_inserted,
                             commitLog, faults>>
           \/ /\ blank = "true"
              /\ idx' = idx + 1
              /\ UNCHANGED <<table, txn, connection, pc, batch, rows_read,
                             rows_inserted, response, commitLog, faults>>
           \/ /\ blank = "false"
              /\ rows_read' = rows_read + 1
              /\ idx' = idx + 1
              /\ UNCHANGED <<connection, pc, response>>
              /\ \/ /\ parsed # "ok"
                    /\ UNCHANGED <<table, txn, batch, rows_inserted, commitLog, faults>>
                 \/ /\ parsed = "ok"
                    /\ ~BatchFull(grown)
                    /\ batch' = grown
                    /\ UNCHANGED <<table, txn, rows_inserted, commitLog, faults>>
                 \/ /\ parsed = "ok"
                    /\ BatchFull(grown)
                    /\ \/ FlushCommitted(grown) /\ batch' = <<>>
                       \/ FlushInsertRaised(grown) /\ batch' = grown /\ UNCHANGED txn
                       \/ /\ FlushCommitRaised(grown)
                          /\ batch' = grown
                          /\ txn' = txn \cup Inserted(grown)
    /\ UNCHANGED <<s3file, csv, run, firstResult, transformVars,
                   queryVars, peerVars>>

\* FinalFlush with the "if batch:" flush left out
FinalFlushDropsBatch ==
    /\ pc = "rows"
    /\ idx > Len(csv)
    /\ txn' = {}
    /\ response' = [statusCode |-> 200,
                    body |-> [message |-> "LoadCSV complete",
                              rows_read |-> rows_read,
                              rows_inserted |-> rows_inserted]]
    /\ connection' = FALSE
    /\ pc' = "returned"
    /\ UNCHANGED <<table, rows_inserted, commitLog, faults>>
    /\ UNCHANGED <<s3file, csv, idx, batch, rows_read, run, firstResult,
                   transformVars, queryVars, peerVars>>

\* After the loop: flush the remaining batch, build the summary response
FinalFlush ==
    /\ pc = "rows"
    /\ idx > Len(csv)
    /\ \/ /\ batch = <<>>
          /\ txn' = {}
          /\ UNCHANGED <<table, rows_inserted, commitLog, faults>>
          /\ response' = [statusCode |-> 200,
                          body |-> [message |-> "LoadCSV complete",
                                    rows_read |-> rows_read,
                                    rows_inserted |-> rows_inserted]]
          /\ connection' = FALSE
          /\ pc' = "returned"
       \/ /\ batch # <<>>
          /\ FlushCommitted(batch)
          /\ response' = [statusCode |-> 200,
                          body |-> [message |-> "LoadCSV complete",
                                    rows_read |-> rows_read,
                                    rows_inserted |-> rows_inserted']]
          /\ connection' = FALSE
          /\ pc' = "returned"
       \/ /\ batch # <<>>
          /\ FlushInsertRaised(batch) \/ FlushCommitRaised(batch)
          /\ Failed("Load failed: final batch")
    /\ UNCHANGED <<s3file, csv, idx, batch, rows_read, run, firstResult,
                   transformVars, queryVars, peerVars>>

NextLoad ==
    \/ LoadInvoke
    \/ Truncate
    \/ ReadS3
    \/ ProcessRow
    \/ FinalFlush

---------------------------------------------------------------------------
(* LoadCSV.py: two invocations against the same table *)

\* the locals of the running load invocation
Locals ==
    [s3file |-> s3file, txn |-> txn, connection |-> connection, pc |-> pc,
     csv |-> csv, idx |-> idx, batch |-> batch, rows_read |-> rows_read,
     rows_inserted |-> rows_inserted, response |-> response, run |-> run,
     commitLog |-> commitLog]

\* the locals of an invocation for the file, not started; r runs went before
Parked(file, r) ==
    [s3file |-> file, txn |-> {}, connection |-> FALSE, pc |-> "idle",
     csv |-> <<>>, idx |-> 1, batch |-> <<>>, rows_read |-> 0,
     rows_inserted |-> 0, response |-> NoResponse, run |-> r,
     commitLog |-> <<>>]

InProgress == {"connected", "truncated", "rows"}

\* The platform runs the other invocation: the handlers share the table and
\* nothing else, so the running invocation's locals are set aside and the
\* other's are taken up.  Every action of NextLoad is one statement against
\* the store or the storage, so the invocations interleave between actions.
Switch ==
    /\ other.pc # "returned"
    /\ other' = Locals
    /\ overlapped' = (overlapped \/ pc \in InProgress)
    /\ s3file' = other.s3file
    /\ txn' = other.txn
    /\ connection' = other.connection
    /\ pc' = other.pc
    /\ csv' = other.csv
    /\ idx' = other.idx
    /\ batch' = other.batch
    /\ rows_read' = other.rows_read
    /\ rows_inserted' = other.rows_inserted
    /\ response' = other.response
    /\ run' = other.run
    /\ commitLog' = other.commitLog
    /\ UNCHANGED <<table, firstResult, faults, transformVars, queryVars>>

---------------------------------------------------------------------------
(* TransformCSV.py: records of the raw input *)

\* A raw record, as csv.reader yields it: the fields of the columns
\* <<orderPriorityRaw, orderDateStr, orderId, shipDateStr, unitsSold,
\*   totalRevenue, totalProfit>>.  The handler requires len(row) >= 14 of
\* the 14 raw columns; the model requires Len(row) >= MinFields of these.
GoodRec(i) == <<"H", "1/1/2020", IdStr[i], "1/5/2020", "10", "200.0", "50.0">>
RepeatRec == <<"L", "1/5/2020", "1", "1/5/2020", "10", "100.0", "50.0">>
ShortRec == <<"H", "1/1/2020", "1">>
LongRec(i) == Append(GoodRec(i), "extra")
BadDateRec(i) == <<"M", "2020-01-01", IdStr[i], "1/5/2020", "10", "200.0", "50.0">>
BadNumRec(i) == <<"C", "1/1/2020", IdStr[i], "1/5/2020", "abc", "200.0", "50.0">>
ZeroRevenueRec(i) == <<"X", "1/1/2020", IdStr[i], "1/5/2020", "10", "0", "50.0">>
EmptyIdRec == <<"H", "1/1/2020", " ", "1/5/2020", "10", "100.0", "50.0">>

MinFields == Len(GoodRec(1))

\* priority_map.get(raw, raw)
PriorityMap(raw) ==
    CASE raw = "L" -> "Low"
      [] raw = "M" -> "Medium"
      [] raw = "H" -> "High"
      [] raw = "C" -> "Critical"
      [] OTHER     -> raw

\* float(s): the strings that coerce, and their values
IsFloat(s) == s \in {"200.0", "100.0", "50.0", "0", "10"}
FloatOf(s) ==
    CASE s = "200.0" -> 200
      [] s = "100.0" -> 100
      [] s = "50.0"  -> 50
      [] s = "10"    -> 10
      [] OTHER       -> 0

\* datetime.strptime(s, "%m/%d/%Y"): the strings that match, as day numbers
IsDate(s) == s \in {"1/1/2020", "1/5/2020"}
DayOf(s) == IF s = "1/5/2020" THEN 5 ELSE 1

\* a quotient of two floats, kept exact
Ratio(n, d) == [num |-> n, den |-> d]

\* The exception the conversions and the enrichment of one loop iteration
\* raise on an unpacked record, or "none"
RowException(row) ==
    IF ~IsInt(row[5]) THEN "ValueError: invalid literal for int()"
    ELSE IF ~IsFloat(row[6]) \/ ~IsFloat(row[7]) THEN "ValueError: could not convert string to float"
    ELSE IF ~IsDate(row[2]) \/ ~IsDate(row[4]) THEN "ValueError: time data does not match format"
    ELSE IF FloatOf(row[6]) = 0 THEN "ZeroDivisionError: float division by zero"
    ELSE "none"

\* the transformed row written by writer.writerow
TransformedRow(row) ==
    [orderPriority |-> PriorityMap(row[1]),
     orderDateStr |-> row[2],
     orderId |-> row[3],
     shipDateStr |-> row[4],
     unitsSold |-> IntOf(row[5]),
     totalRevenue |-> FloatOf(row[6]),
     totalProfit |-> FloatOf(row[7]),
     orderProcessingTime |-> DayOf(row[4]) - DayOf(row[2]),
     grossMargin |-> Ratio(FloatOf(row[7]), FloatOf(row[6]))]

RawValues == {GoodRec(1), GoodRec(2), RepeatRec, ShortRec, LongRec(2),
              BadDateRec(2), BadNumRec(1), ZeroRevenueRec(2), EmptyIdRec}

Inputs == SeqsUpTo(RawValues, MaxRecords)

---------------------------------------------------------------------------
(* TransformCSV.py: lambda_handler *)

NotUploaded == <<"not uploaded">>
NoResult == [status |-> "none"]

\* an exception leaves lambda_handler: the handler catches none
Raised(err) ==
    /\ result' = [status |-> "raised", error |-> err]
    /\ t_pc' = "raised"

\* Metrics, duplicate checker, output header, get_object, skip the header
TransformInvoke ==
    /\ t_pc \in {"idle", "returned", "raised"}
    /\ t_run < MaxRuns
    /\ t_run' = t_run + 1
    /\ row_count' = 0
    /\ total_revenue_sum' = 0
    /\ total_profit_sum' = 0
    /\ seen_order_ids' = {}
    /\ output' = <<>>
    /\ t_idx' = 1
    /\ uploaded' = NotUploaded
    /\ \/ /\ t_pc' = "rows"
          /\ result' = NoResult
          /\ UNCHANGED faults
       \/ /\ CanFault
          /\ faults' = faults + 1
          /\ Raised("get_object failed")
    /\ UNCHANGED <<input, loadVars, queryVars, peerVars>>

\* SeenBefore with the membership test left out
SeenBeforeNever(orderId, seen) == FALSE

\* if orderId in seen_order_ids
SeenBefore(orderId, seen) == orderId \in seen

\* One iteration of "for row in reader"
TransformRow ==
    /\ t_pc = "rows"
    /\ t_idx <= Len(input)
    /\ LET row == input[t_idx]
       IN  \/ /\ Len(row) < MinFields
              /\ t_idx' = t_idx + 1
              /\ UNCHANGED <<t_pc, seen_order_ids, output, row_count,
                             total_revenue_sum, total_profit_sum, result>>
           \/ /\ Len(row) > MinFields
              /\ Raised("ValueError: too many values to unpack")
              /\ UNCHANGED <<t_idx, seen_order_ids, output, row_count,
                             total_revenue_sum, total_profit_sum>>
           \/ /\ Len(row) = MinFields
              /\ SeenBefore(row[3], seen_order_ids)
              /\ t_idx' = t_idx + 1
              /\ UNCHANGED <<t_pc, seen_order_ids, output, row_count,
                             total_revenue_sum, total_profit_sum, result>>
           \/ /\ Len(row) = MinFields
              /\ ~SeenBefore(row[3], seen_order_ids)
              /\ seen_order_ids' = seen_order_ids \cup {row[3]}
              /\ \/ /\ RowException(row) # "none"
                    /\ Raised(RowException(row))
                    /\ UNCHANGED <<t_idx, output, row_count, total_revenue_sum,
                                   total_profit_sum>>
                 \/ /\ RowException(row) = "none"
                    /\ output' = Append(output, TransformedRow(row))
                    /\ row_count' = row_count + 1
                    /\ total_revenue_sum' = total_revenue_sum + FloatOf(row[6])
                    /\ total_profit_sum' = total_profit_sum + FloatOf(row[7])
                    /\ t_idx' = t_idx + 1
                    /\ UNCHANGED <<t_pc, result>>
    /\ UNCHANGED <<t_run, input, uploaded, faults, loadVars, queryVars, peerVars>>

\* Average with the row_count == 0 guard left out
AverageUnguarded(total, n) == Ratio(total, n)

\* 0 if row_count == 0 else total / row_count
Average(total, n) == IF n = 0 THEN Ratio(0, 1) ELSE Ratio(total, n)

\* the division that gives the quotient q raises ZeroDivisionError
DivideFault(q) == q.den = 0

\* After the loop: put_object, averages, return
Upload ==
    /\ t_pc = "rows"
    /\ t_idx > Len(input)
    /\ \/ /\ uploaded' = output
          /\ ~DivideFault(Average(total_revenue_sum, row_count))
          /\ ~DivideFault(Average(total_profit_sum, row_count))
          /\ result' = [status |-> "returned",
                        rows_transformed |-> row_count,
                        avg_revenue |-> Average(total_revenue_sum, row_count),
                        avg_profit |-> Average(total_profit_sum, row_count)]
          /\ t_pc' = "returned"
          /\ UNCHANGED faults
       \/ /\ uploaded' = output
          /\ \/ DivideFault(Average(total_revenue_sum, row_count))
             \/ DivideFault(Average(total_profit_sum, row_count))
          /\ Raised("ZeroDivisionError: division by zero")
          /\ UNCHANGED faults
       \/ /\ CanFault
          /\ faults' = faults + 1
          /\ Raised("put_object failed")
          /\ UNCHANGED uploaded
    /\ UNCHANGED <<t_run, input, t_idx, seen_order_ids, output, row_count,
                   total_revenue_sum, total_profit_sum, loadVars, queryVars, peerVars>>

NextTransform ==
    \/ TransformInvoke
    \/ TransformRow
    \/ Upload

---------------------------------------------------------------------------
(* QueryDB.py: the request *)

\* Bound of the model: entries of filters, of groupBy and of aggregations
MaxItems == 2

ALLOWED_FUNCS == {"SUM", "AVG", "MIN", "MAX", "COUNT"}

\* COLUMN_MAP.get(name): the mapped column, or NoneVal for a name not mapped
COLUMN_MAP(name) ==
    CASE name = "Region"                -> "region"
      [] name = "Country"               -> "country"
      [] name = "Item Type"             -> "item_type"
      [] name = "Sales Channel"         -> "sales_channel"
      [] name = "Order Priority"        -> "order_priority"
      [] name = "Order Date"            -> "order_date"
      [] name = "Ship Date"             -> "ship_date"
      [] name = "Units Sold"            -> "units_sold"
      [] name = "Unit Price"            -> "unit_price"
      [] name = "Unit Cost"             -> "unit_cost"
      [] name = "Total Revenue"         -> "total_revenue"
      [] name = "Total Cost"            -> "total_cost"
      [] name = "Total Profit"          -> "total_profit"
      [] name = "Order Processing Time" -> "order_processing_time"
      [] name = "Gross Margin"          -> "gross_margin"
      [] OTHER                          -> NoneVal

\* input_str.lower().replace(" ", "_"), for the names of the model's requests
LowerUnderscore(name) ==
    CASE name = "order id; DROP TABLE sales" -> "order_id;_drop_table_sales"
      [] name = "1; DROP TABLE sales"        -> "1;_drop_table_sales"
      [] name = "1 = 1 OR Region"            -> "1_=_1_or_region"
      [] OTHER                               -> name

normalize_column(input_str) ==
    IF COLUMN_MAP(input_str) # NoneVal THEN COLUMN_MAP(input_str)
    ELSE LowerUnderscore(input_str)

\* str.upper(), for the pieces of the model's expressions
Upper(piece) ==
    CASE piece = "sum" -> "SUM"
      [] piece = "foo" -> "FOO"
      [] OTHER         -> piece

\* An aggregation expression is the sequence of its pieces: "(" and ")" are
\* pieces of their own, the other pieces hold no parenthesis, and the text
\* between two parentheses is one piece.
Expressions ==
    {<<"SUM", "(", "Total Revenue", ")">>,
     <<"sum", "(", "Total Revenue", ")">>,
     <<" ", "AVG", "(", " Region ", ")", " ">>,
     <<"COUNT", "(", "order id; DROP TABLE sales", ")">>,
     <<"foo", "(", "Total Revenue", ")">>,
     <<"SUM ", "(", "Total Revenue", ")">>,
     <<"SUM Total Revenue">>,
     <<"SUM", "(", "Total Revenue">>,
     <<")", "MAX", "(", "Region">>}

Aliases == {"total", "x FROM sales; DROP TABLE sales --"}
GroupNames == {"Country", "1; DROP TABLE sales"}
FilterKeys == {"Region", "1 = 1 OR Region"}
FilterValues == {"Europe", "' OR '1'='1"}

\* the entries of a dict, in insertion order: no key twice
DistinctKeys(items) ==
    \A i, j \in 1..Len(items) : i # j => items[i][1] # items[j][1]

\* the requests: every entry of aggregations and filters is <<key, value>>
Events ==
    {[filters |-> f, groupBy |-> g, aggregations |-> a] :
        f \in {x \in SeqsUpTo(FilterKeys \X FilterValues, MaxItems) : DistinctKeys(x)},
        g \in SeqsUpTo(GroupNames, MaxItems),
        a \in {x \in SeqsUpTo(Aliases \X Expressions, MaxItems) : DistinctKeys(x)}}

---------------------------------------------------------------------------
(* QueryDB.py: lambda_handler *)

\* expr.strip(): leading and trailing whitespace pieces removed
RECURSIVE StripExpr(_)
StripExpr(expr) ==
    IF expr = <<>> THEN expr
    ELSE IF Strip(Head(expr)) = "" THEN StripExpr(Tail(expr))
    ELSE IF Strip(expr[Len(expr)]) = "" THEN StripExpr(SubSeq(expr, 1, Len(expr) - 1))
    ELSE expr

\* c in expr
Contains(expr, c) == \E i \in 1..Len(expr) : expr[i] = c

\* expr.index(c)
IndexOf(expr, c) == CHOOSE i \in 1..Len(expr) : expr[i] = c /\ \A j \in 1..(i - 1) : expr[j] # c

\* expr[:expr.index('(')].upper(), as the sequence of its pieces
FuncOf(expr) == [i \in 1..(IndexOf(expr, "(") - 1) |-> Upper(expr[i])]

\* AllowedFunc with every function accepted
AllowedFuncAny(func) == TRUE

\* func in ALLOWED_FUNCS
AllowedFunc(func) == Len(func) = 1 /\ func[1] \in ALLOWED_FUNCS

\* expr[expr.index('(') + 1:expr.index(')')].strip()
ColOf(expr) ==
    LET inside == SubSeq(expr, IndexOf(expr, "(") + 1, IndexOf(expr, ")") - 1)
    IN  IF inside = <<>> THEN "" ELSE Strip(inside[1])

\* the ValueError the aggregation loop raises on the expression, or "none"
AggregationError(rawExpr) ==
    LET expr == StripExpr(rawExpr)
    IN  IF ~Contains(expr, "(") \/ ~Contains(expr, ")") THEN "Invalid aggregation format"
        ELSE IF ~AllowedFunc(FuncOf(expr)) THEN "Invalid aggregation function"
        ELSE "none"

\* f"{func}({col}) AS {alias}"
SelectField(alias, rawExpr) ==
    LET expr == StripExpr(rawExpr)
    IN  FuncOf(expr) \o <<"(", normalize_column(ColOf(expr)), ")", " AS ", alias>>

\* sep.join(texts)
RECURSIVE Join(_, _)
Join(texts, sep) ==
    IF texts = <<>> THEN <<>>
    ELSE IF Len(texts) = 1 THEN texts[1]
    ELSE texts[1] \o <<sep>> \o Join(Tail(texts), sep)

\* select_fields: the aggregations, then the group-by columns
SelectFields(ev) ==
    [i \in 1..Len(ev.aggregations) |->
        SelectField(ev.aggregations[i][1], ev.aggregations[i][2])]
    \o [i \in 1..Len(ev.groupBy) |-> <<normalize_column(ev.groupBy[i])>>]

\* WhereClause with the value written into the text
WhereClauseInterpolated(key, value) == <<normalize_column(key), " = '", value, "'">>

\* where_clauses.append(f"{col} = %s")
WhereClause(key, value) == <<normalize_column(key), " = %s">>

\* the query text of a request that passed the checks
BuildSql(ev) ==
    <<"SELECT ">> \o Join(SelectFields(ev), ", ") \o <<" FROM sales">>
    \o (IF ev.filters = <<>> THEN <<>>
        ELSE <<" WHERE ">>
             \o Join([i \in 1..Len(ev.filters) |->
                        WhereClause(ev.filters[i][1], ev.filters[i][2])], " AND "))
    \o (IF ev.groupBy = <<>> THEN <<>>
        ELSE <<" GROUP BY ">>
             \o Join([i \in 1..Len(ev.groupBy) |-> <<normalize_column(ev.groupBy[i])>>], ", "))

NoQueryResponse == [statusCode |-> 0, body |-> [error |-> "none"]]

\* except Exception (statusCode 500 with the error) and finally (close)
QueryFailed(err) ==
    /\ q_response' = [statusCode |-> 500, body |-> [error |-> err]]
    /\ q_connection' = FALSE
    /\ q_pc' = "returned"

\* Invocation up to the connect; a missing environment variable or a failed
\* connect raises with connection still None
QueryInvoke ==
    /\ q_pc = "idle"
    /\ \/ /\ q_connection' = TRUE
          /\ q_pc' = "connected"
          /\ UNCHANGED <<q_response, faults>>
       \/ /\ CanFault
          /\ faults' = faults + 1
          /\ QueryFailed("connect failed")
    /\ UNCHANGED <<event, sql, where_values, executed>>
    /\ UNCHANGED <<loadVars, transformVars, peerVars>>

\* Parse the input and construct the SQL
QueryBuild ==
    /\ q_pc = "connected"
    /\ LET aggs == event.aggregations
           bad == {i \in 1..Len(aggs) : AggregationError(aggs[i][2]) # "none"}
       IN  \/ /\ bad # {}
              /\ LET first == CHOOSE i \in bad : \A j \in bad : i <= j
                 IN  QueryFailed(AggregationError(aggs[first][2]))
              /\ UNCHANGED <<sql, where_values>>
           \/ /\ bad = {}
              /\ SelectFields(event) = <<>>
              /\ QueryFailed("No fields to select. Provide aggregations or groupBy.")
              /\ UNCHANGED <<sql, where_values>>
           \/ /\ bad = {}
              /\ SelectFields(event) # <<>>
              /\ sql' = BuildSql(event)
              /\ where_values' = [i \in 1..Len(event.filters) |-> event.filters[i][2]]
              /\ q_pc' = "built"
              /\ UNCHANGED <<q_connection, q_response>>
    /\ UNCHANGED <<event, executed, faults>>
    /\ UNCHANGED <<loadVars, transformVars, peerVars>>

\* cursor.execute(sql, where_values), fetchall, return
QueryExecute ==
    /\ q_pc = "built"
    /\ executed' = TRUE
    /\ \/ /\ q_response' = [statusCode |-> 200,
                            body |-> [query_sql |-> sql]]
          /\ q_connection' = FALSE
          /\ q_pc' = "returned"
          /\ UNCHANGED faults
       \/ /\ CanFault
          /\ faults' = faults + 1
          /\ QueryFailed("execute failed")
    /\ UNCHANGED <<event, sql, where_values>>
    /\ UNCHANGED <<loadVars, transformVars, peerVars>>

NextQuery ==
    \/ QueryInvoke
    \/ QueryBuild
    \/ QueryExecute

---------------------------------------------------------------------------
(* Specifications *)

LoadIdle(file, old) ==
    /\ s3file = file
    /\ table = old
    /\ txn = {}
    /\ connection = FALSE
    /\ pc = "idle"
    /\ csv = <<>>
    /\ idx = 1
    /\ batch = <<>>
    /\ rows_read = 0
    /\ rows_inserted = 0
    /\ response = NoResponse
    /\ run = 0
    /\ commitLog = <<>>
    /\ firstResult = [table |-> {}, response |-> NoResponse]

TransformIdle(in) ==
    /\ t_pc = "idle"
    /\ t_run = 0
    /\ input = in
    /\ t_idx = 1
    /\ seen_order_ids = {}
    /\ output = <<>>
    /\ row_count = 0
    /\ total_revenue_sum = 0
    /\ total_profit_sum = 0
    /\ uploaded = NotUploaded
    /\ result = NoResult

QueryIdle(ev) ==
    /\ q_pc = "idle"
    /\ event = ev
    /\ q_connection = FALSE
    /\ sql = <<>>
    /\ where_values = <<>>
    /\ executed = FALSE
    /\ q_response = NoQueryResponse

NoRequest == [filters |-> <<>>, groupBy |-> <<>>, aggregations |-> <<>>]

\* no second load invocation
NoPeer ==
    /\ other = Parked(<<>>, 0)
    /\ overlapped = FALSE

\* Load runs: any transformed file, a table holding the rows of an old load
InitLoad ==
    /\ \E file \in Files : LoadIdle(file, OldRows)
    /\ TransformIdle(<<>>)
    /\ QueryIdle(NoRequest)
    /\ NoPeer
    /\ faults = 0

SpecLoad == InitLoad /\ [][NextLoad]_vars

\* Transform runs: any raw input
InitTransform ==
    /\ \E in \in Inputs : TransformIdle(in)
    /\ LoadIdle(<<>>, {})
    /\ QueryIdle(NoRequest)
    /\ NoPeer
    /\ faults = 0

SpecTransform == InitTransform /\ [][NextTransform]_vars

\* Queries: any request
InitQuery ==
    /\ \E ev \in Events : QueryIdle(ev)
    /\ LoadIdle(<<>>, {})
    /\ TransformIdle(<<>>)
    /\ NoPeer
    /\ faults = 0

SpecQuery == InitQuery /\ [][NextQuery]_vars

\* the files of the first of two load invocations: up to one row more than
\* a batch
OverlapFiles == FilesUpTo(BATCH_SIZE + 1) \ {<<>>}

\* the files of the second: rows with an order id the first file may hold
\* and with one it does not hold
PeerFiles == SeqsUpTo({OkRow(1), OkRow(MaxId)}, BATCH_SIZE) \ {<<>>}

\* Two load invocations, each run once, for different files against the
\* same table, with no external fault
InitOverlap ==
    /\ \E file \in OverlapFiles, peer \in PeerFiles :
          /\ file # peer
          /\ s3file = file
          /\ other = Parked(peer, MaxRuns - 1)
    /\ table = OldRows
    /\ txn = {}
    /\ connection = FALSE
    /\ pc = "idle"
    /\ csv = <<>>
    /\ idx = 1
    /\ batch = <<>>
    /\ rows_read = 0
    /\ rows_inserted = 0
    /\ response = NoResponse
    /\ run = MaxRuns - 1
    /\ commitLog = <<>>
    /\ firstResult = [table |-> {}, response |-> NoResponse]
    /\ overlapped = FALSE
    /\ TransformIdle(<<>>)
    /\ QueryIdle(NoRequest)
    /\ faults = MaxFaults

NextOverlap ==
    \/ LoadInvoke
    \/ Truncate
    \/ ReadS3
    \/ ProcessRow
    \/ FinalFlush
    \/ Switch

SpecOverlap == InitOverlap /\ [][NextOverlap]_vars

Init == InitLoad \/ InitTransform \/ InitQuery \/ InitOverlap
Next == NextLoad \/ NextTransform \/ NextQuery \/ Switch
Spec == Init /\ [][Next]_vars

---------------------------------------------------------------------------
(* Properties of the load run *)

\* a row of the file reaches batch.append
IsLoadable(row) == AllBlank(row) = "false" /\ ParseRow(row) = "ok"

\* a row of the file is counted in rows_read and excluded by a row-level error
IsExcluded(row) == AllBlank(row) = "false" /\ ParseRow(row) # "ok"

\* the tuples of the loadable rows of a file, in file order
Loadable(f) ==
    LET rows == SelectSeq(f, IsLoadable)
    IN  [i \in 1..Len(rows) |-> RowTuple(rows[i])]

\* the first m loadable rows of f, as this run stores them
StoredPrefix(f, m) == {Stored(Loadable(f)[i], run) : i \in 1..m}

Finished200 == pc = "returned" /\ response.statusCode = 200
Finished500 == pc = "returned" /\ response.statusCode = 500

\* C1: when a load run finishes with statusCode 200 the table holds exactly
\* the successfully parsed rows of the file, each inserted by this run and
\* counted once in rows_inserted, and no row of before the run.
C1_SnapshotReplace ==
    Finished200 =>
        /\ table = StoredPrefix(s3file, Len(Loadable(s3file)))
        /\ Cardinality(table) = rows_inserted
        /\ response.body.rows_inserted = rows_inserted

\* a run over a file with loadable and excluded rows finished with 200,
\* replacing the rows of before the run
C1_Witness ==
    /\ Finished200
    /\ Cardinality(table) >= BATCH_SIZE + 1
    /\ \E i \in 1..Len(s3file) : IsExcluded(s3file[i])

\* C2: the truncate is committed before the file is read (the table is
\* empty when the handler stands before the S3 read), and from then on every
\* step of the run, a fatal failure included, leaves in the table only rows
\* committed by this run: a prefix of the file's rows, never an older row.
C2_TruncatePointOfNoReturn ==
    [][/\ (pc' = "truncated" => table' = {} /\ csv' = <<>>)
       /\ (pc \in {"truncated", "rows"} =>
             \E m \in 0..Len(Loadable(s3file)) : table' = StoredPrefix(s3file, m))]_vars

\* a run failed fatally after committing part of the file
C2_Witness ==
    /\ Finished500
    /\ table # {}
    /\ \A x \in table : x.run = run
    /\ Cardinality(table) < Len(Loadable(s3file))

\* the sizes of the commits that load m rows
BatchSizes(m) ==
    [k \in 1..((m + BATCH_SIZE - 1) \div BATCH_SIZE) |->
        IF k * BATCH_SIZE <= m THEN BATCH_SIZE ELSE m % BATCH_SIZE]

\* every row of the file is valid: loadable, with an order id of its own
AllValid(f) ==
    /\ \A i \in 1..Len(f) : IsLoadable(f[i])
    /\ \A i, j \in 1..Len(f) : i # j => RowTuple(f[i]).order_id # RowTuple(f[j]).order_id

\* rows of a valid file committed once the loop has processed n of them
CommittedAfter(n) == BATCH_SIZE * (n \div BATCH_SIZE)

\* C3: loading n valid rows without an external fault commits ceil(n /
\* BATCH_SIZE) batches, each of BATCH_SIZE rows except a last one of
\* n mod BATCH_SIZE rows when that is not zero, in file order, and
\* rows_inserted totals n.
C3_BatchBoundary ==
    (AllValid(s3file) /\ faults = 0 /\ pc \in {"rows", "returned"}) =>
        LET m == IF pc = "returned" THEN Len(s3file) ELSE CommittedAfter(idx - 1)
        IN  /\ commitLog = BatchSizes(m)
            /\ rows_inserted = m
            /\ table = StoredPrefix(s3file, m)
            /\ pc = "returned" => response.statusCode = 200

\* a valid file was loaded in full batches and a last partial one
C3_Witness ==
    /\ AllValid(s3file) /\ faults = 0 /\ Finished200
    /\ Len(commitLog) >= 2
    /\ commitLog[Len(commitLog)] < BATCH_SIZE

\* C4: loading the same file twice in a row without an external fault leaves
\* the same rows, the same row count and the same response both times; and a
\* run that finishes with 200 has rows_inserted = rows_read minus the rows
\* excluded by row-level errors.
C4_ReloadIdempotent ==
    /\ (pc = "returned" /\ run = 2 /\ faults = 0) =>
            /\ Untag(table) = firstResult.table
            /\ Cardinality(table) = Cardinality(firstResult.table)
            /\ response = firstResult.response
    /\ Finished200 =>
            rows_inserted = rows_read - Len(SelectSeq(s3file, IsExcluded))

\* the second load of a file with loadable and excluded rows finished, as
\* the first, with 200
C4_Witness ==
    /\ Finished200 /\ run = 2 /\ faults = 0
    /\ firstResult.response.statusCode = 200
    /\ rows_inserted >= BATCH_SIZE
    /\ rows_inserted < rows_read

\* rows this run committed
OwnRows == {x \in table : x.run = run}

RECURSIVE SumSeq(_)
SumSeq(q) == IF q = <<>> THEN 0 ELSE q[1] + SumSeq(Tail(q))

\* C5: a run that failed fatally reports statusCode 500 with a message and
\* no rows_read / rows_inserted; its open transaction is rolled back and
\* every batch it committed is still in the table.
C5_RollbackInFlightOnly ==
    Finished500 =>
        /\ DOMAIN response.body = {"message"}
        /\ txn = {}
        /\ Cardinality(OwnRows) = rows_inserted
        /\ SumSeq(commitLog) = rows_inserted

\* a run failed fatally on its last batch after committing an earlier one
C5_Witness ==
    /\ Finished500
    /\ rows_inserted >= BATCH_SIZE
    /\ batch # <<>>
    /\ idx > Len(csv)

\* two loadable rows of the file share an order id
HasRepeatedKey(f) ==
    \E i, j \in 1..Len(Loadable(f)) :
        i # j /\ Loadable(f)[i].order_id = Loadable(f)[j].order_id

\* every line of the file has a field for every column
NoShortLine(f) == \A i \in 1..Len(f) : Len(f[i]) = NumCols

\* C11: an order id repeated in the file, met while inserting, is a
\* row-level failure: without an external fault the run still ends with
\* statusCode 200, be the conflict in a full batch or in the last partial one.
C11_DuplicateKeyRowLevel ==
    (pc = "returned" /\ faults = 0 /\ NoShortLine(s3file) /\ HasRepeatedKey(s3file)) =>
        response.statusCode = 200

\* C16: at every point of a load run the in-memory batch holds at most
\* BATCH_SIZE rows, also after the insert of a full batch failed.
C16_BatchBounded ==
    Len(batch) <= BATCH_SIZE

C19_InsertedCountsCommitted ==
    pc \in {"truncated", "rows", "returned"} =>
        /\ rows_inserted = Cardinality(OwnRows)
        /\ rows_inserted = SumSeq(commitLog)
        /\ rows_inserted <= rows_read
        /\ pc = "rows" => rows_inserted + Len(batch) <= rows_read

\* after one committed batch the insert of the next failed: its rows are
\* kept in memory and not counted
C19_Witness ==
    /\ pc = "rows"
    /\ rows_inserted = BATCH_SIZE
    /\ Len(batch) >= BATCH_SIZE
    /\ rows_read = rows_inserted + Len(batch)


\* the loadable rows of a file, as a set
RowSet(f) == {Loadable(f)[i] : i \in 1..Len(Loadable(f))}

\* both load invocations returned statusCode 200
BothReturned200 ==
    /\ Finished200
    /\ other.pc = "returned" /\ other.response.statusCode = 200

\* C18: load invocations are not isolated from each other.  Two invocations
\* for different files that both return 200 leave the exact row set of the
\* file loaded last only when neither was suspended in progress; run
\* interleaved they leave rows of the two files and nothing else, and
\* C18_Witness is a reachable outcome that is the row set of neither file.
C18_IsolatedOnlyWhenSerial ==
    BothReturned200 =>
        /\ Untag(table) \subseteq RowSet(s3file) \cup RowSet(other.s3file)
        /\ ~overlapped => Untag(table) = RowSet(s3file)

\* an interleaving of the truncate and batch-commit steps of two invocations
\* after which both have returned 200 and the table is the exact row set of
\* neither file
C18_Witness ==
    /\ BothReturned200
    /\ overlapped
    /\ s3file # other.s3file
    /\ Untag(table) # RowSet(s3file)
    /\ Untag(table) # RowSet(other.s3file)

---------------------------------------------------------------------------
(* Properties of the transform run *)

StorageErrors == {"get_object failed", "put_object failed"}

\* C6: a per-row failure (a numeric field that does not coerce, a date not
\* in MM/DD/YYYY, a zero totalRevenue) is caught and the run completes; only
\* failing to read the input or to write the output makes the run fail.
C6_PerRowFailureCaught ==
    t_pc = "raised" => result.error \in StorageErrors

\* an earlier record of the input, long enough to be unpacked, has this orderId
HasEarlier(i, orderId) ==
    \E j \in 1..(i - 1) : Len(input[j]) >= MinFields /\ input[j][3] = orderId

\* the records the loop has passed that are the first of their orderId
FirstsPassed ==
    {i \in 1..(t_idx - 1) : Len(input[i]) >= MinFields /\ ~HasEarlier(i, input[i][3])}

\* C7: of the records sharing an orderId within one transform run the first,
\* and only the first, is in the output: no two output rows share an
\* orderId, every output row is the transform of the first record of its
\* orderId, and every first record the loop has passed is in the output,
\* in every run (the seen-set of an earlier run does not count).
C7_DedupFirstRetained ==
    /\ \A a, b \in 1..Len(output) : a # b => output[a].orderId # output[b].orderId
    /\ \A k \in 1..Len(output) :
          \E i \in FirstsPassed : output[k] = TransformedRow(input[i])
    /\ \A i \in FirstsPassed :
          \E k \in 1..Len(output) : output[k] = TransformedRow(input[i])

\* a second run returned an output that keeps the first of two records
\* with the orderId "1" and drops the second
C7_Witness ==
    /\ t_pc = "returned"
    /\ t_run = 2
    /\ Len(output) >= 2
    /\ \E i, j \in 1..Len(input) :
          /\ i < j
          /\ input[i] = RepeatRec
          /\ input[j] = GoodRec(1)
          /\ \E k \in 1..Len(output) : output[k] = TransformedRow(RepeatRec)

\* a record is well-formed: at least MinFields fields, the first MinFields
\* of which convert
WellFormed(row) ==
    Len(row) >= MinFields /\ RowException(SubSeq(row, 1, MinFields)) = "none"

\* C8: rows_transformed returned by the run equals the number of data rows
\* written to the output, which equals the number of input records that are
\* well-formed and the first of their orderId (a 3-record input with one
\* wrong-date record and one repeated orderId gives 1).
C8_RowsTransformedCount ==
    (t_pc \in {"returned", "raised"} /\ faults = 0) =>
        /\ result.status = "returned"
        /\ result.rows_transformed = Len(uploaded)
        /\ result.rows_transformed =
              Cardinality({i \in 1..Len(input) :
                              WellFormed(input[i]) /\ ~HasEarlier(i, input[i][3])})

\* C9: a record with more than the required fields whose first fields are
\* well-formed is parsed and written; the extra fields do not fail the run.
C9_ExtraFieldsEligible ==
    (t_pc = "raised" /\ result.error \notin StorageErrors) =>
        ~(Len(input[t_idx]) > MinFields /\ WellFormed(input[t_idx]))

\* C10: a record whose orderId is empty after trimming whitespace is never
\* written to the output nor counted in rows_transformed.
C10_EmptyOrderIdRejected ==
    /\ \A k \in 1..Len(output) : Strip(output[k].orderId) # ""
    /\ row_count <= Cardinality({i \in 1..Len(input) : Len(input[i]) >= MinFields
                                    /\ Strip(input[i][3]) # ""})

\* C15: a transform run that wrote no row and put its (empty) output returns
\* rows_transformed = 0 with avg_revenue = 0 and avg_profit = 0: the
\* averages raise no divide fault.
C15_ZeroRowsAverages ==
    (t_pc \in {"returned", "raised"} /\ t_idx > Len(input)
        /\ row_count = 0 /\ uploaded # NotUploaded) =>
        /\ result.status = "returned"
        /\ result.rows_transformed = 0
        /\ result.avg_revenue = Ratio(0, 1)
        /\ result.avg_profit = Ratio(0, 1)

\* a run over an input whose records are all too short returned, having
\* written no row
C15_Witness ==
    /\ t_pc = "returned"
    /\ Len(input) >= 2
    /\ \A i \in 1..Len(input) : input[i] = ShortRec
    /\ result.rows_transformed = 0

---------------------------------------------------------------------------
(* Properties of the query *)

\* the pieces of the query text between FROM sales and GROUP BY
WherePart(q) ==
    LET from == IndexOf(q, " FROM sales")
        upto == IF Contains(q, " GROUP BY ") THEN IndexOf(q, " GROUP BY ") - 1
                ELSE Len(q)
    IN  SubSeq(q, from + 1, upto)

\* C12: a query that is built carries no filter value in its text: the
\* WHERE part is one "column = %s" placeholder per filter, joined by AND
\* (and absent without filters), and the bound parameters are exactly the
\* filter values in filter order, whatever the values hold.
C12_FilterValuesBound ==
    (q_pc \in {"built", "returned"} /\ sql # <<>>) =>
        LET n == Len(event.filters)
            w == WherePart(sql)
        IN  /\ where_values = [i \in 1..n |-> event.filters[i][2]]
            /\ \A i \in 1..Len(sql) : sql[i] \notin FilterValues
            /\ Len(w) = 3 * n
            /\ n > 0 => w[1] = " WHERE "
            /\ \A i \in 1..n : w[3 * i] = " = %s"
            /\ \A i \in 1..(n - 1) : w[3 * i + 1] = " AND "

\* a query with two filters, one value holding quotes, was executed
C12_Witness ==
    /\ q_pc = "returned"
    /\ q_response.statusCode = 200
    /\ executed
    /\ Len(where_values) = 2
    /\ \E i \in 1..2 : where_values[i] = "' OR '1'='1"

\* the pieces the handler writes into every query text
SqlSyntax == {"SELECT ", ", ", " FROM sales", " WHERE ", " AND ", " = %s",
              " GROUP BY ", "(", ")", " AS "}

\* the keys of COLUMN_MAP
ColumnNames == {"Region", "Country", "Item Type", "Sales Channel",
                "Order Priority", "Order Date", "Ship Date", "Units Sold",
                "Unit Price", "Unit Cost", "Total Revenue", "Total Cost",
                "Total Profit", "Order Processing Time", "Gross Margin"}

\* the columns of the fixed mapping
MappedColumns == {COLUMN_MAP(name) : name \in ColumnNames}

\* C13: the only text of the request in the query text is function names of
\* the allowed set and columns of the fixed mapping: no alias, filter key,
\* groupBy entry or aggregation column is in the text otherwise.
C13_OnlyWhitelistedText ==
    \A i \in 1..Len(sql) :
        sql[i] \in SqlSyntax \cup ALLOWED_FUNCS \cup MappedColumns

\* C14: a request is rejected (statusCode 500 with an error, no query built
\* or executed) when one of its aggregation expressions lacks the
\* parentheses, or has a function name that is not SUM, AVG, MIN, MAX or
\* COUNT in any letter case, or when aggregations and groupBy are both
\* empty; every other request, without an external fault, has its query
\* built and executed.
C14_RejectedRequests ==
    LET aggs == event.aggregations
        NoParentheses(e) == ~(Contains(e, "(") /\ Contains(e, ")"))
        UnknownFunction(e) ==
            /\ Contains(e, "(")
            /\ \A f \in ALLOWED_FUNCS : FuncOf(StripExpr(e)) # <<f>>
        rejected ==
            \/ \E i \in 1..Len(aggs) :
                  NoParentheses(aggs[i][2]) \/ UnknownFunction(aggs[i][2])
            \/ aggs = <<>> /\ event.groupBy = <<>>
    IN  /\ q_pc = "built" => ~rejected /\ ~executed /\ sql # <<>>
        /\ (q_pc = "returned" /\ faults = 0) =>
              IF rejected
              THEN /\ q_response.statusCode = 500
                   /\ DOMAIN q_response.body = {"error"}
                   /\ ~executed
                   /\ sql = <<>>
              ELSE /\ q_response.statusCode = 200
                   /\ executed
                   /\ sql # <<>>
                   /\ q_response.body.query_sql = sql

\* a request with a groupBy entry and an aggregation FOO(...) in lower case
\* was rejected before any query was built
C14_Witness ==
    /\ q_pc = "returned"
    /\ faults = 0
    /\ q_response.statusCode = 500
    /\ q_response.body.error = "Invalid aggregation function"
    /\ ~executed
    /\ event.groupBy # <<>>
    /\ \E i \in 1..Len(event.aggregations) : event.aggregations[i][2][1] = "foo"
=============================================================================
